---- MODULE Spec2Model ----
(***************************************************************************)
(* A model of homework.py: the fitness-tracker module that turns raw       *)
(* sensor packages into Training objects (Running, SportsWalking,          *)
(* Swimming), computes distance, mean speed and spent calories, and prints *)
(* one InfoMessage line per package.                                       *)
(*                                                                         *)
(* Numbers.  Python ints and floats are modelled as exact rationals        *)
(* <<n, d>> with d > 0 and gcd(n, d) = 1, so the arithmetic of the         *)
(* formulas is the arithmetic of the reals: the binary rounding of IEEE    *)
(* doubles (e.g. 157.50000000000003 for 157.5) is below the resolution of  *)
(* the model.  Division by zero raises ZeroDivisionError as in Python.     *)
(***************************************************************************)
EXTENDS Integers, Sequences, FiniteSets, TLC

VARIABLES pc, packages, idx, training, err, created, out, seen

vars == <<pc, packages, idx, training, err, created, out, seen>>

(***************************************************************************)
(* Bounds of the model.                                                    *)
(***************************************************************************)
\* longest data list handed to read_package
MaxData == 6
\* longest package list the driver loop iterates over
MaxPackages == 3

(***************************************************************************)
(* Rational arithmetic standing for Python's numeric operators.            *)
(***************************************************************************)
Abs(x) == IF x < 0 THEN -x ELSE x

\* The arithmetic is written as functions: the arguments of a function are
\* evaluated once, before the call, as Python evaluates the operands of an
\* arithmetic operator.
GCD[a \in Nat, b \in Nat] == IF b = 0 THEN a ELSE GCD[b, a % b]

\* the number n/d in lowest terms with a positive denominator (d # 0)
Rat[n \in Int, d \in Int] ==
    LET s == IF d < 0 THEN -1 ELSE 1
        g == GCD[Abs(n), Abs(d)]
    IN  <<(s * n) \div g, (s * d) \div g>>

Num(n) == <<n, 1>>

\* pairs <<numerator, denominator>>
Q == Int \X Int

RAdd[a \in Q, b \in Q] == Rat[a[1] * b[2] + b[1] * a[2], a[2] * b[2]]
RSub[a \in Q, b \in Q] == Rat[a[1] * b[2] - b[1] * a[2], a[2] * b[2]]
RMul[a \in Q, b \in Q] == Rat[a[1] * b[1], a[2] * b[2]]
\* a / b for b # 0
RDiv[a \in Q, b \in Q] == Rat[a[1] * b[2], a[2] * b[1]]
\* a // b for b # 0: the quotient rounded towards minus infinity
RFloorDiv[a \in Q, b \in Q] ==
    LET q == Rat[a[1] * b[2], a[2] * b[1]]
    IN  Num(q[1] \div q[2])
RIsZero(a) == a[1] = 0

(***************************************************************************)
(* Results of a call: a returned value or a raised exception.              *)
(***************************************************************************)
Return(v) == [exc |-> "none", val |-> v]
Raise(e) == [exc |-> e, val |-> Num(0)]
\* no call of the operation has returned yet
Unset == [exc |-> "unset", val |-> Num(0)]

(***************************************************************************)
(* Class constants.                                                        *)
(***************************************************************************)
M_IN_KM == 1000
MIN_IN_HOUR == 60
RATIO_RUN_1 == 18
RATIO_RUN_2 == 20
RATIO_WLK_1 == Rat[35, 1000]
RATIO_WLK_2 == Rat[29, 1000]
RATIO_SWM_1 == Rat[11, 10]
RATIO_SWM_2 == 2

\* self.LEN_STEP, resolved through the class of self
LEN_STEP(cls) == IF cls = "Swimming" THEN Rat[138, 100] ELSE Rat[65, 100]

(***************************************************************************)
(* The dataclasses.  An object is its class name and its instance fields.  *)
(***************************************************************************)
\* Fault variant of Fields: Swimming declares count_pool before length_pool
Fields_PoolSwapped(cls) ==
    CASE cls = "Running"       -> <<"action", "duration", "weight">>
      [] cls = "SportsWalking" -> <<"action", "duration", "weight", "height">>
      [] cls = "Swimming"      -> <<"action", "duration", "weight",
                                    "count_pool", "length_pool">>

\* the fields of the generated __init__, base class first, in declared order
Fields(cls) ==
    CASE cls = "Running"       -> <<"action", "duration", "weight">>
      [] cls = "SportsWalking" -> <<"action", "duration", "weight", "height">>
      [] cls = "Swimming"      -> <<"action", "duration", "weight",
                                    "length_pool", "count_pool">>

\* the value None: no Training object
NoTraining == [cls |-> "None", attrs |-> <<>>]

\* Fault variant of Construct: surplus arguments are dropped instead of
\* raising TypeError
Construct_Lenient(cls, data) ==
    IF Len(data) < Len(Fields(cls))
    THEN [exc |-> "TypeError", obj |-> NoTraining]
    ELSE [exc |-> "none",
          obj |-> [cls   |-> cls,
                   attrs |-> [f \in {Fields(cls)[k] : k \in 1..Len(Fields(cls))} |->
                                data[CHOOSE k \in 1..Len(Fields(cls)) :
                                        Fields(cls)[k] = f]]]]

\* cls(*data): the dataclass __init__ binds the positional arguments to the
\* fields in order and raises TypeError on any other number of arguments
Construct(cls, data) ==
    IF Len(data) # Len(Fields(cls))
    THEN [exc |-> "TypeError", obj |-> NoTraining]
    ELSE [exc |-> "none",
          obj |-> [cls   |-> cls,
                   attrs |-> [f \in {Fields(cls)[k] : k \in 1..Len(Fields(cls))} |->
                                data[CHOOSE k \in 1..Len(Fields(cls)) :
                                        Fields(cls)[k] = f]]]]

(***************************************************************************)
(* Training and its subclasses.                                            *)
(***************************************************************************)
\* Fault variant of Training.get_distance: "-" typed for "/"
Training_get_distance_Minus(self) ==
    Return(RSub[RMul[self.attrs.action, LEN_STEP(self.cls)], Num(M_IN_KM)])

Training_get_distance(self) ==
    Return(RDiv[RMul[self.attrs.action, LEN_STEP(self.cls)], Num(M_IN_KM)])

Swimming_get_distance(self) ==
    Return(RDiv[RMul[self.attrs.action, LEN_STEP(self.cls)], Num(M_IN_KM)])

get_distance(self) ==
    IF self.cls = "Swimming" THEN Swimming_get_distance(self)
    ELSE Training_get_distance(self)

Training_get_mean_speed(self) ==
    IF RIsZero(self.attrs.duration) THEN Raise("ZeroDivisionError")
    ELSE Return(RDiv[get_distance(self).val, self.attrs.duration])

\* Fault variant of Swimming.get_mean_speed: the override is missing and the
\* method of Training is inherited
Swimming_get_mean_speed_Inherited(self) == Training_get_mean_speed(self)

Swimming_get_mean_speed(self) ==
    IF RIsZero(self.attrs.duration) THEN Raise("ZeroDivisionError")
    ELSE Return(RDiv[RDiv[RMul[self.attrs.length_pool, self.attrs.count_pool],
                          Num(M_IN_KM)],
                     self.attrs.duration])

get_mean_speed(self) ==
    IF self.cls = "Swimming" THEN Swimming_get_mean_speed(self)
    ELSE Training_get_mean_speed(self)

\* Fault variant of Running.get_spent_calories: RATIO_RUN_2 is added
Running_get_spent_calories_Plus(self) ==
    LET speed == get_mean_speed(self)
    IN  IF speed.exc # "none" THEN speed
        ELSE Return(RMul[RMul[RDiv[RMul[RAdd[RMul[Num(RATIO_RUN_1), speed.val],
                                             Num(RATIO_RUN_2)],
                                        self.attrs.weight],
                                   Num(M_IN_KM)],
                              self.attrs.duration],
                         Num(MIN_IN_HOUR)])

Running_get_spent_calories(self) ==
    LET speed == get_mean_speed(self)
    IN  IF speed.exc # "none" THEN speed
        ELSE Return(RMul[RMul[RDiv[RMul[RSub[RMul[Num(RATIO_RUN_1), speed.val],
                                             Num(RATIO_RUN_2)],
                                        self.attrs.weight],
                                   Num(M_IN_KM)],
                              self.attrs.duration],
                         Num(MIN_IN_HOUR)])

\* Fault variant of SportsWalking.get_spent_calories: the quotient is
\* rounded to the nearest integer instead of floored
SportsWalking_get_spent_calories_Round(self) ==
    LET speed == get_mean_speed(self)
        q == RDiv[RMul[speed.val, speed.val], self.attrs.height]
    IN  IF speed.exc # "none" THEN speed
        ELSE IF RIsZero(self.attrs.height) THEN Raise("ZeroDivisionError")
        ELSE Return(RMul[RMul[RAdd[RMul[RATIO_WLK_1, self.attrs.weight],
                                   RMul[RMul[Num((2 * q[1] + q[2]) \div (2 * q[2])),
                                             RATIO_WLK_2],
                                        self.attrs.weight]],
                              self.attrs.duration],
                         Num(MIN_IN_HOUR)])

SportsWalking_get_spent_calories(self) ==
    LET speed == get_mean_speed(self)
    IN  IF speed.exc # "none" THEN speed
        ELSE IF RIsZero(self.attrs.height) THEN Raise("ZeroDivisionError")
        ELSE Return(RMul[RMul[RAdd[RMul[RATIO_WLK_1, self.attrs.weight],
                                   RMul[RMul[RFloorDiv[RMul[speed.val, speed.val],
                                                       self.attrs.height],
                                             RATIO_WLK_2],
                                        self.attrs.weight]],
                              self.attrs.duration],
                         Num(MIN_IN_HOUR)])

Swimming_get_spent_calories(self) ==
    LET speed == get_mean_speed(self)
    IN  IF speed.exc # "none" THEN speed
        ELSE Return(RMul[RMul[RAdd[speed.val, RATIO_SWM_1], Num(RATIO_SWM_2)],
                         self.attrs.weight])

get_spent_calories(self) ==
    CASE self.cls = "Running"       -> Running_get_spent_calories(self)
      [] self.cls = "SportsWalking" -> SportsWalking_get_spent_calories(self)
      [] self.cls = "Swimming"      -> Swimming_get_spent_calories(self)

\* InfoMessage(type(self).__name__, duration, distance, speed, calories); the
\* arguments are evaluated left to right and the first exception propagates
show_training_info(self) ==
    LET distance == get_distance(self)
        speed    == get_mean_speed(self)
        calories == get_spent_calories(self)
    IN  IF speed.exc # "none" THEN Raise(speed.exc)
        ELSE IF calories.exc # "none" THEN Raise(calories.exc)
        ELSE [exc |-> "none",
              val |-> [training_type |-> self.cls,
                       duration      |-> self.attrs.duration,
                       distance      |-> distance.val,
                       speed         |-> speed.val,
                       calories      |-> calories.val]]

(***************************************************************************)
(* InfoMessage.                                                            *)
(***************************************************************************)
\* format(x, ".3f"): sign, integer part and exactly three decimals of x
\* rounded to the nearest thousandth, ties to even
Fmt3[q \in Q] ==
    LET a  == Abs(q[1]) * 1000
        w  == a \div q[2]
        r  == a % q[2]
        up == (2 * r > q[2]) \/ (2 * r = q[2] /\ w % 2 = 1)
        m  == IF up THEN w + 1 ELSE w
    IN  [neg |-> q[1] < 0, int |-> m \div 1000, frac |-> m % 1000]

\* MESSAGE.format(**asdict(self)): the fixed template filled with the type
\* name and the four numbers in .3f form, in the template's order
get_message(info) ==
    <<info.training_type, Fmt3[info.duration], Fmt3[info.distance],
      Fmt3[info.speed], Fmt3[info.calories]>>

(***************************************************************************)
(* read_package.                                                           *)
(***************************************************************************)
type_train == ("RUN" :> "Running") @@ ("SWM" :> "Swimming") @@
              ("WLK" :> "SportsWalking")

\* Fault variant of read_package: an unknown code falls back to Running
read_package_Default(workout_type, data) ==
    IF workout_type \notin DOMAIN type_train
    THEN Construct("Running", data)
    ELSE Construct(type_train[workout_type], data)

\* type_train[workout_type](*data), KeyError turned into ValueError
read_package(workout_type, data) ==
    IF workout_type \notin DOMAIN type_train
    THEN [exc |-> "ValueError", obj |-> NoTraining]
    ELSE Construct(type_train[workout_type], data)

(***************************************************************************)
(* Inputs.  A package is a pair <<workout_type, data>>.                    *)
(***************************************************************************)
Codes == {"RUN", "SWM", "WLK", "XYZ", "run"}

\* the values tried at position k of a data list
PosVals(k) ==
    CASE k = 1 -> {Num(0), Num(720), Num(9000), Num(15000)}
      [] k = 2 -> {Num(-1), Num(0), Rat[1, 2], Num(1)}
      [] k = 3 -> {Num(0), Num(75), Num(80)}
      [] k = 4 -> {Num(-25), Num(0), Num(2), Num(25), Num(180)}
      [] k = 5 -> {Num(-1), Num(0), Num(40)}
      [] OTHER -> {Num(1)}

RECURSIVE DataOfLen(_)
DataOfLen(n) ==
    IF n = 0 THEN {<<>>}
    ELSE {Append(d, v) : d \in DataOfLen(n - 1), v \in PosVals(n)}

DataLists == UNION {DataOfLen(n) : n \in 0..MaxData}

\* the packages list of the __main__ block
MainPackages ==
    << <<"SWM", <<Num(720), Num(1), Num(80), Num(25), Num(40)>> >>,
       <<"RUN", <<Num(15000), Num(1), Num(75)>> >>,
       <<"WLK", <<Num(9000), Num(1), Num(75), Num(180)>> >> >>

\* the packages the driver lists are drawn from: the three of the source, an
\* unknown code, a short data list, a zero duration and a zero height
DriverPackages ==
    {MainPackages[k] : k \in 1..3} \cup
    { <<"XYZ", <<Num(720), Num(1), Num(80)>> >>,
      <<"RUN", <<Num(15000), Num(1)>> >>,
      <<"RUN", <<Num(15000), Num(0), Num(75)>> >>,
      <<"WLK", <<Num(9000), Num(1), Num(75), Num(0)>> >> }

RECURSIVE ListsOfLen(_)
ListsOfLen(n) ==
    IF n = 0 THEN {<<>>}
    ELSE {Append(l, p) : l \in ListsOfLen(n - 1), p \in DriverPackages}

PackageLists == UNION {ListsOfLen(n) : n \in 0..MaxPackages}

Ops == {"get_distance", "get_mean_speed", "get_spent_calories",
        "show_training_info"}

(***************************************************************************)
(* State.                                                                  *)
(*   packages  the list of <<workout_type, data>> pairs being processed    *)
(*   idx       position of the loop in packages                            *)
(*   pc        "loop" (about to take the next pair), "main" (a Training    *)
(*             object is bound to training), "done" (normal exit),         *)
(*             "raised" (an exception left the program)                    *)
(*   training  the object returned by read_package                         *)
(*   err       the exception that ended the run, or "none"                 *)
(*   created   number of times a class of type_train was called            *)
(*   out       the lines printed so far                                    *)
(*   seen      per operation, what its last call on training produced      *)
(***************************************************************************)
InitCommon ==
    /\ pc = "loop"
    /\ idx = 1
    /\ training = NoTraining
    /\ err = "none"
    /\ created = 0
    /\ out = <<>>
    /\ seen = [op \in Ops |-> Unset]

\* a caller that hands one package to read_package and then uses the object
Init ==
    /\ packages \in {<<p>> : p \in Codes \X DataLists}
    /\ InitCommon

\* the __main__ block with its list of packages
InitDriver ==
    /\ packages \in PackageLists
    /\ InitCommon

\* Fault variant of the loop step: an exception of read_package is swallowed
\* and the loop goes on with the next pair
ReadPackage_Skip ==
    /\ pc = "loop"
    /\ idx <= Len(packages)
    /\ LET r == read_package(packages[idx][1], packages[idx][2])
       IN  /\ training' = r.obj
           /\ err' = "none"
           /\ pc' = IF r.exc = "none" THEN "main" ELSE "loop"
           /\ idx' = IF r.exc = "none" THEN idx ELSE idx + 1
           /\ created' = IF packages[idx][1] \in DOMAIN type_train
                         THEN created + 1 ELSE created
    /\ UNCHANGED <<packages, out, seen>>

\* training = read_package(workout_type, data) for the next pair of packages
ReadPackage ==
    /\ pc = "loop"
    /\ idx <= Len(packages)
    /\ LET r == read_package(packages[idx][1], packages[idx][2])
       IN  /\ training' = r.obj
           /\ err' = r.exc
           /\ pc' = IF r.exc = "none" THEN "main" ELSE "raised"
           /\ created' = IF packages[idx][1] \in DOMAIN type_train
                         THEN created + 1 ELSE created
    /\ UNCHANGED <<packages, idx, out, seen>>

\* Fault variant of main: the new line is put in front of the earlier ones
Main_Prepend ==
    /\ pc = "main"
    /\ LET info == show_training_info(training)
       IN  IF info.exc # "none"
           THEN /\ pc' = "raised"
                /\ err' = info.exc
                /\ UNCHANGED <<out, idx>>
           ELSE /\ out' = <<get_message(info.val)>> \o out
                /\ idx' = idx + 1
                /\ pc' = "loop"
                /\ UNCHANGED err
    /\ UNCHANGED <<packages, training, created, seen>>

\* main(training): print(training.show_training_info().get_message()), then
\* the for loop moves to the next pair
Main ==
    /\ pc = "main"
    /\ LET info == show_training_info(training)
       IN  IF info.exc # "none"
           THEN /\ pc' = "raised"
                /\ err' = info.exc
                /\ UNCHANGED <<out, idx>>
           ELSE /\ out' = Append(out, get_message(info.val))
                /\ idx' = idx + 1
                /\ pc' = "loop"
                /\ UNCHANGED err
    /\ UNCHANGED <<packages, training, created, seen>>

\* the for loop is exhausted: the program ends normally
LoopExit ==
    /\ pc = "loop"
    /\ idx > Len(packages)
    /\ pc' = "done"
    /\ UNCHANGED <<packages, idx, training, err, created, out, seen>>

\* Fault variant of a get_distance call: the method converts self.action to
\* kilometres in place
CallGetDistance_InPlace ==
    /\ pc = "main"
    /\ seen' = [seen EXCEPT !["get_distance"] = get_distance(training)]
    /\ training' = [training EXCEPT !.attrs.action = get_distance(training).val]
    /\ UNCHANGED <<pc, packages, idx, err, created, out>>

\* a call of one of the four operations on the object read_package returned
CallGetDistance ==
    /\ pc = "main"
    /\ seen' = [seen EXCEPT !["get_distance"] = get_distance(training)]
    /\ UNCHANGED <<pc, packages, idx, training, err, created, out>>

CallGetMeanSpeed ==
    /\ pc = "main"
    /\ seen' = [seen EXCEPT !["get_mean_speed"] = get_mean_speed(training)]
    /\ UNCHANGED <<pc, packages, idx, training, err, created, out>>

CallGetSpentCalories ==
    /\ pc = "main"
    /\ seen' = [seen EXCEPT !["get_spent_calories"] = get_spent_calories(training)]
    /\ UNCHANGED <<pc, packages, idx, training, err, created, out>>

CallShowTrainingInfo ==
    /\ pc = "main"
    /\ seen' = [seen EXCEPT !["show_training_info"] = show_training_info(training)]
    /\ UNCHANGED <<pc, packages, idx, training, err, created, out>>

Next ==
    \/ ReadPackage
    \/ CallGetDistance
    \/ CallGetMeanSpeed
    \/ CallGetSpentCalories
    \/ CallShowTrainingInfo

Spec == Init /\ [][Next]_vars

NextDriver ==
    \/ ReadPackage
    \/ Main
    \/ LoopExit

SpecDriver == InitDriver /\ [][NextDriver]_vars

\* the interpreter runs the loop to its end or to the first exception
SpecDriverFair == SpecDriver /\ WF_vars(NextDriver)

TypeOK ==
    /\ pc \in {"loop", "main", "done", "raised"}
    /\ err \in {"none", "ValueError", "TypeError", "ZeroDivisionError"}
    /\ idx \in 1..(Len(packages) + 1)
    /\ created \in 0..Len(packages)

(***************************************************************************)
(* Vocabulary of the properties.                                           *)
(***************************************************************************)
\* the pair handed to read_package by the step at position idx
ArgType == packages[idx][1]
ArgData == packages[idx][2]
\* read_package has been called on the pair at position idx
WasRead == pc \in {"main", "raised"}
\* order of rationals with positive denominators
RLess(a, b) == a[1] * b[2] < b[1] * a[2]
RLeq(a, b) == a[1] * b[2] <= b[1] * a[2]
\* the rational a equals n/d (d # 0), by cross-multiplication
REq(a, n, d) == a[1] * d = n * a[2]
\* the object bound to training has exactly these fields, in this order
IsObject(cls, values) ==
    /\ training.cls = cls
    /\ \A k \in 1..Len(values) : training.attrs[Fields(cls)[k]] = values[k]
    /\ Cardinality(DOMAIN training.attrs) = Len(values)
HasReturned(op) == seen[op].exc = "none"

(***************************************************************************)
(* C1  read_package with a recognized code and the expected number of      *)
(* values returns an object of the mapped class (RUN -> Running, 3 values; *)
(* SWM -> Swimming, 5; WLK -> SportsWalking, 4) whose i-th declared field  *)
(* holds the i-th value.                                                   *)
(***************************************************************************)
C1_MappedVariant ==
    WasRead =>
      /\ (ArgType = "RUN" /\ Len(ArgData) = 3) =>
            /\ pc = "main" /\ err = "none"
            /\ training.cls = "Running"
            /\ DOMAIN training.attrs = {"action", "duration", "weight"}
            /\ training.attrs.action = ArgData[1]
            /\ training.attrs.duration = ArgData[2]
            /\ training.attrs.weight = ArgData[3]
      /\ (ArgType = "SWM" /\ Len(ArgData) = 5) =>
            /\ pc = "main" /\ err = "none"
            /\ training.cls = "Swimming"
            /\ DOMAIN training.attrs =
                 {"action", "duration", "weight", "length_pool", "count_pool"}
            /\ training.attrs.action = ArgData[1]
            /\ training.attrs.duration = ArgData[2]
            /\ training.attrs.weight = ArgData[3]
            /\ training.attrs.length_pool = ArgData[4]
            /\ training.attrs.count_pool = ArgData[5]
      /\ (ArgType = "WLK" /\ Len(ArgData) = 4) =>
            /\ pc = "main" /\ err = "none"
            /\ training.cls = "SportsWalking"
            /\ DOMAIN training.attrs = {"action", "duration", "weight", "height"}
            /\ training.attrs.action = ArgData[1]
            /\ training.attrs.duration = ArgData[2]
            /\ training.attrs.weight = ArgData[3]
            /\ training.attrs.height = ArgData[4]

\* a Swimming object built from five values whose pool fields differ
C1_Witness ==
    /\ pc = "main"
    /\ ArgType = "SWM"
    /\ ArgData = <<Num(720), Num(1), Num(80), Num(25), Num(40)>>
    /\ training.cls = "Swimming"
    /\ training.attrs.length_pool = Num(25)
    /\ training.attrs.count_pool = Num(40)

(***************************************************************************)
(* C2  For a code outside {RUN, SWM, WLK}, whatever the values,            *)
(* read_package raises ValueError, returns no object, and no class of      *)
(* type_train is called.                                                   *)
(***************************************************************************)
C2_UnknownTypeRaises ==
    (WasRead /\ ArgType \notin {"RUN", "SWM", "WLK"}) =>
        /\ pc = "raised"
        /\ err = "ValueError"
        /\ training = NoTraining
        /\ created = 0

\* an unknown code came with a data list that would have fitted Running
C2_Witness ==
    /\ pc = "raised"
    /\ err = "ValueError"
    /\ ArgType = "XYZ"
    /\ Len(ArgData) = 3

(***************************************************************************)
(* C3  For a recognized code with a number of values other than the        *)
(* expected one (3 for RUN, 5 for SWM, 4 for WLK), read_package raises     *)
(* TypeError (not ValueError) to its caller and returns no object.         *)
(***************************************************************************)
C3_WrongCountRaises ==
    (/\ WasRead
     /\ \/ ArgType = "RUN" /\ Len(ArgData) # 3
        \/ ArgType = "SWM" /\ Len(ArgData) # 5
        \/ ArgType = "WLK" /\ Len(ArgData) # 4) =>
        /\ pc = "raised"
        /\ err = "TypeError"
        /\ training = NoTraining

\* SWM with too few values (a count that fits WLK) has raised TypeError
C3_Witness ==
    /\ pc = "raised"
    /\ err = "TypeError"
    /\ ArgType = "SWM"
    /\ Len(ArgData) = 4

\* RUN with too many values has raised TypeError
C3_WitnessTooMany ==
    /\ pc = "raised"
    /\ err = "TypeError"
    /\ ArgType = "RUN"
    /\ Len(ArgData) = 4

(***************************************************************************)
(* C4  Running(15000, 1, 75): get_distance returns 9.75, get_mean_speed    *)
(* returns 9.75 and get_spent_calories returns                             *)
(* (18*9.75 - 20) * 75 / 1000 * 1 * 60 = 699.75.                           *)
(***************************************************************************)
IsRunningExample ==
    /\ pc = "main"
    /\ IsObject("Running", <<Num(15000), Num(1), Num(75)>>)

C4_RunningExample ==
    IsRunningExample =>
        /\ seen["get_distance"] \in {Unset, Return(<<39, 4>>)}
        /\ seen["get_mean_speed"] \in {Unset, Return(<<39, 4>>)}
        /\ seen["get_spent_calories"] \in {Unset, Return(<<2799, 4>>)}

\* the three operations have returned on the example object
C4_Witness ==
    /\ IsRunningExample
    /\ HasReturned("get_distance")
    /\ HasReturned("get_mean_speed")
    /\ seen["get_spent_calories"] = Return(<<2799, 4>>)

\* the claim as stated: the calories of the example are 722.25
C4_Original ==
    IsRunningExample =>
        /\ seen["get_distance"] \in {Unset, Return(<<39, 4>>)}
        /\ seen["get_mean_speed"] \in {Unset, Return(<<39, 4>>)}
        /\ seen["get_spent_calories"] \in {Unset, Return(<<2889, 4>>)}

(***************************************************************************)
(* C5  For a Swimming object with nonzero duration: get_mean_speed is      *)
(* (length_pool * count_pool / 1000) / duration whatever action is;        *)
(* get_distance is action * 1.38 / 1000 whatever the pool fields are;      *)
(* get_spent_calories is (mean_speed + 1.1) * 2 * weight.                  *)
(* Swimming(720, 1, 80, 25, 40) has speed 1.0 and calories 336.0.          *)
(***************************************************************************)
IsSwimming ==
    /\ pc = "main"
    /\ training.cls = "Swimming"
    /\ ~RIsZero(training.attrs.duration)

\* numerator and denominator of length_pool * count_pool / 1000 / duration
PoolSpeedNum ==
    training.attrs.length_pool[1] * training.attrs.count_pool[1]
        * training.attrs.duration[2]
PoolSpeedDen ==
    training.attrs.length_pool[2] * training.attrs.count_pool[2]
        * 1000 * training.attrs.duration[1]

C5_SwimmingFormulas ==
    IsSwimming =>
      /\ seen["get_mean_speed"] # Unset =>
            /\ HasReturned("get_mean_speed")
            /\ REq(seen["get_mean_speed"].val, PoolSpeedNum, PoolSpeedDen)
            /\ \A a \in PosVals(1) :
                 get_mean_speed([training EXCEPT !.attrs.action = a])
                    = seen["get_mean_speed"]
      /\ seen["get_distance"] # Unset =>
            /\ HasReturned("get_distance")
            /\ REq(seen["get_distance"].val,
                   training.attrs.action[1] * 138,
                   training.attrs.action[2] * 100 * 1000)
            /\ \A l \in PosVals(4), c \in PosVals(5) :
                 get_distance([training EXCEPT !.attrs.length_pool = l,
                                               !.attrs.count_pool = c])
                    = seen["get_distance"]
      /\ seen["get_spent_calories"] # Unset =>
            /\ HasReturned("get_spent_calories")
            /\ REq(seen["get_spent_calories"].val,
                   (10 * PoolSpeedNum + 11 * PoolSpeedDen) * 2
                       * training.attrs.weight[1],
                   10 * PoolSpeedDen * training.attrs.weight[2])
      /\ IsObject("Swimming", <<Num(720), Num(1), Num(80), Num(25), Num(40)>>) =>
            /\ seen["get_mean_speed"] \in {Unset, Return(Num(1))}
            /\ seen["get_spent_calories"] \in {Unset, Return(Num(336))}

\* the example object after its speed, distance and calories were computed
C5_Witness ==
    /\ IsSwimming
    /\ IsObject("Swimming", <<Num(720), Num(1), Num(80), Num(25), Num(40)>>)
    /\ seen["get_mean_speed"] = Return(Num(1))
    /\ seen["get_distance"] = Return(<<621, 625>>)
    /\ seen["get_spent_calories"] = Return(Num(336))

(***************************************************************************)
(* C6  For a SportsWalking object with nonzero duration and height,        *)
(* get_spent_calories is                                                   *)
(*   (0.035*weight + k * 0.029 * weight) * duration * 60                   *)
(* where k is the integer floor of mean_speed^2 / height; when             *)
(* 0 <= mean_speed^2 < height it is 0.035 * weight * duration * 60.        *)
(* SportsWalking(9000, 1, 75, 180) has calories 157.5.                     *)
(***************************************************************************)
IsWalking ==
    /\ pc = "main"
    /\ training.cls = "SportsWalking"
    /\ ~RIsZero(training.attrs.duration)
    /\ ~RIsZero(training.attrs.height)

SpeedSquared ==
    LET s == get_mean_speed(training).val IN Rat[s[1] * s[1], s[2] * s[2]]

\* mean_speed^2 / height in lowest terms
SpeedQuotient == RDiv[SpeedSquared, training.attrs.height]

\* k is the greatest integer not above mean_speed^2 / height
IsFloorOfQuotient(k) ==
    /\ k * SpeedQuotient[2] <= SpeedQuotient[1]
    /\ SpeedQuotient[1] < (k + 1) * SpeedQuotient[2]

\* the integers among which the floor of the quotient lies
FloorRange ==
    LET b == Abs(SpeedQuotient[1]) \div SpeedQuotient[2] + 1 IN (-b)..b

\* (0.035*weight + k*0.029*weight) * duration * 60 as numerator, denominator
WalkingCaloriesNum(k) ==
    (35 + 29 * k) * training.attrs.weight[1] * training.attrs.duration[1] * 60
WalkingCaloriesDen ==
    1000 * training.attrs.weight[2] * training.attrs.duration[2]

C6_WalkingFloorDivision ==
    (IsWalking /\ seen["get_spent_calories"] # Unset) =>
      /\ HasReturned("get_spent_calories")
      /\ \E k \in FloorRange :
            /\ IsFloorOfQuotient(k)
            /\ REq(seen["get_spent_calories"].val,
                   WalkingCaloriesNum(k), WalkingCaloriesDen)
      /\ (/\ RLeq(Num(0), SpeedSquared)
          /\ RLess(SpeedSquared, training.attrs.height)) =>
            REq(seen["get_spent_calories"].val,
                35 * training.attrs.weight[1] * training.attrs.duration[1] * 60,
                WalkingCaloriesDen)
      /\ IsObject("SportsWalking", <<Num(9000), Num(1), Num(75), Num(180)>>) =>
            seen["get_spent_calories"] = Return(<<315, 2>>)

\* 5.85^2 // 2 = 17: a floor that differs from the quotient 17.11
C6_Witness ==
    /\ IsWalking
    /\ IsObject("SportsWalking", <<Num(9000), Num(1), Num(75), Num(2)>>)
    /\ IsFloorOfQuotient(17)
    /\ seen["get_spent_calories"] = Return(Num(2376))

(***************************************************************************)
(* C7 (as amended)  For an object with positive duration and positive      *)
(* action, get_distance is non-negative for every class; get_mean_speed    *)
(* is non-negative for Running and SportsWalking, and for Swimming it is   *)
(* negative exactly when length_pool * count_pool is negative.             *)
(***************************************************************************)
IsValidRecord ==
    /\ pc = "main"
    /\ training.attrs.duration[1] > 0
    /\ training.attrs.action[1] > 0

C7_NonNegative ==
    IsValidRecord =>
      /\ seen["get_distance"] # Unset =>
            /\ HasReturned("get_distance")
            /\ seen["get_distance"].val[1] >= 0
      /\ seen["get_mean_speed"] # Unset =>
            /\ HasReturned("get_mean_speed")
            /\ training.cls \in {"Running", "SportsWalking"} =>
                  seen["get_mean_speed"].val[1] >= 0
            /\ training.cls = "Swimming" =>
                  (seen["get_mean_speed"].val[1] < 0
                     <=> training.attrs.length_pool[1]
                            * training.attrs.count_pool[1] < 0)

\* a walker of negative height still has non-negative distance and speed
C7_Witness ==
    /\ IsValidRecord
    /\ training.cls = "SportsWalking"
    /\ training.attrs.height[1] < 0
    /\ HasReturned("get_distance")
    /\ HasReturned("get_mean_speed")
    /\ seen["get_mean_speed"].val[1] > 0

\* the claim as stated: non-negative whatever the remaining fields are
C7_Original ==
    IsValidRecord =>
      /\ seen["get_distance"] # Unset =>
            /\ HasReturned("get_distance")
            /\ seen["get_distance"].val[1] >= 0
      /\ seen["get_mean_speed"] # Unset =>
            /\ HasReturned("get_mean_speed")
            /\ seen["get_mean_speed"].val[1] >= 0

(***************************************************************************)
(* C9  A call of get_distance, get_mean_speed, get_spent_calories or       *)
(* show_training_info, in any order and any number of times, leaves the    *)
(* object as it was, and an operation that was called before produces      *)
(* what it produced before.                                                *)
(***************************************************************************)
C9_Step ==
    pc = "main" =>
        /\ training' = training
        /\ \A op \in Ops : seen[op] # Unset => seen'[op] = seen[op]

C9_CallsArePure == [][C9_Step]_vars

\* all four operations were called on one object, one of them raising
C9_Witness ==
    /\ pc = "main"
    /\ \A op \in Ops : seen[op] # Unset
    /\ HasReturned("get_distance")
    /\ seen["show_training_info"].exc = "ZeroDivisionError"

\* all four operations have returned on one object
C9_WitnessReturned ==
    /\ pc = "main"
    /\ \A op \in Ops : HasReturned(op)

(***************************************************************************)
(* Vocabulary of the driver's properties.                                  *)
(***************************************************************************)
\* a recognized code with the number of values its class takes, a nonzero
\* duration and, for WLK, a nonzero height: the metrics are all defined
WellFormed(p) ==
    /\ \/ p[1] = "RUN" /\ Len(p[2]) = 3
       \/ p[1] = "SWM" /\ Len(p[2]) = 5
       \/ p[1] = "WLK" /\ Len(p[2]) = 4
    /\ p[2][2] # Num(0)
    /\ p[1] = "WLK" => p[2][4] # Num(0)

AllWellFormed == \A k \in 1..Len(packages) : WellFormed(packages[k])

Dec(i, f) == [neg |-> FALSE, int |-> i, frac |-> f]

\* the line the program prints for a package of its own list
ExpectedLine(p) ==
    CASE p = MainPackages[1] ->
           <<"Swimming", Dec(1, 0), Dec(0, 994), Dec(1, 0), Dec(336, 0)>>
      [] p = MainPackages[2] ->
           <<"Running", Dec(1, 0), Dec(9, 750), Dec(9, 750), Dec(699, 750)>>
      [] p = MainPackages[3] ->
           <<"SportsWalking", Dec(1, 0), Dec(5, 850), Dec(5, 850), Dec(157, 500)>>

(***************************************************************************)
(* C8  When every pair of the list is recognized and well-formed, the      *)
(* driver prints exactly one line per pair, in input order, the line of a  *)
(* pair being the same wherever the pair stands, and then ends normally.   *)
(***************************************************************************)
C8_Lines ==
    AllWellFormed =>
        /\ pc # "raised"
        /\ err = "none"
        /\ Len(out) = idx - 1
        /\ \A j \in 1..Len(out) : out[j] = ExpectedLine(packages[j])
        /\ \A j, k \in 1..Len(out) :
              packages[j] = packages[k] => out[j] = out[k]
        /\ pc = "done" => Len(out) = Len(packages)

C8_OneLinePerPair == []C8_Lines /\ (AllWellFormed ~> pc = "done")

\* a finished run over three pairs, the first repeated after another one
C8_Witness ==
    /\ pc = "done"
    /\ AllWellFormed
    /\ Len(packages) = 3
    /\ packages[1] = packages[3]
    /\ packages[1] # packages[2]
    /\ Len(out) = 3
    /\ out[1] = out[3]

(***************************************************************************)
(* C10  When the list holds an unrecognized code at position i after       *)
(* well-formed pairs, the driver prints the lines of the positions before  *)
(* i, in order, then stops with ValueError: nothing is printed for         *)
(* position i or later and the run never ends normally.                    *)
(***************************************************************************)
UnknownAt(i) ==
    /\ packages[i][1] \notin {"RUN", "SWM", "WLK"}
    /\ \A k \in 1..(i - 1) : WellFormed(packages[k])

C10_Prefix ==
    \A i \in 1..Len(packages) :
        UnknownAt(i) =>
            /\ pc # "done"
            /\ idx <= i
            /\ Len(out) < i
            /\ \A j \in 1..Len(out) : out[j] = ExpectedLine(packages[j])
            /\ pc = "raised" =>
                  /\ err = "ValueError"
                  /\ idx = i
                  /\ Len(out) = i - 1

C10_UnknownTypeStopsRun ==
    /\ []C10_Prefix
    /\ [][pc # "raised"]_vars
    /\ (\E i \in 1..Len(packages) : UnknownAt(i)) ~> (pc = "raised")

\* the run stopped at an unknown code in third place, two lines printed
C10_Witness ==
    /\ pc = "raised"
    /\ err = "ValueError"
    /\ Len(packages) = 3
    /\ UnknownAt(3)
    /\ idx = 3
    /\ Len(out) = 2

====
